---------------------------- MODULE Spec2Model ----------------------------
(***************************************************************************)
(* Model of the time-integration core of rooster: the assembly of the flat *)
(* vector of unknowns, the right-hand-side dispatcher construct_rhs and    *)
(* the output driver of src/B_reactor.py, together with the variant of     *)
(* src/rooster.py (reactor.state and its construct_rhs).                   *)
(*                                                                         *)
(* Indices are 0-based as in the source; a TLA+ sequence is 1-based, so    *)
(* y[indx] of the source is y[indx + 1] here.  Real numbers are modelled   *)
(* by small naturals: temperatures, flowrates, power and concentrations    *)
(* by 0..MaxVal, times by integers.                                        *)
(***************************************************************************)
EXTENDS Integers, Sequences, FiniteSets, TLC

(* ------------------------------ bounds --------------------------------- *)
\* largest value of a scalar unknown
MaxVal == 1
\* largest number of fuel rods
MaxRods == 2
\* largest number of axial nodes of a fuel rod
MaxNz == 2
\* largest number of radial nodes of fuel, and of clad
MaxNr == 1
\* largest number of independent junctions
MaxJun == 1
\* largest number of delayed-neutron precursor groups
MaxDnp == 1
\* largest length of the vector of unknowns in the dispatcher specification
MaxLen == 5
\* largest number of construct_rhs calls in the dispatcher specification
MaxCalls == 3
\* largest trial time handed to construct_rhs in the dispatcher specification
MaxTime == 1
\* largest length of a subsystem's state list in rooster.py
MaxSub == 1
\* largest length of the vector of unknowns when two calls are compared
MaxProbeLen == 2
\* largest number of dependent junctions
MaxJund == 1
\* largest number of time segments in t_dt
MaxSegs == 2
\* largest end time of a segment
MaxT == 2
\* largest output interval of a segment
MaxDt == 2
\* largest number of construct_rhs calls the solver makes in one integrate call
MaxTrials == 1

VARIABLES
    prog,      \* which source file runs: "B_reactor" or "rooster"
    input,     \* control.input and the dimensions of the subsystem objects
    solid,     \* solid.fuelrod[i].fuel[j].temp[k] and .clad[j].temp[k], by slot
    fluid,     \* fluid.mdoti[i], by slot
    neutron,   \* neutron.pointkinetics.power and .cdnp[i], by slot
    y0,        \* the list of unknowns built in Reactor.__init__
    state,     \* reactor.state of rooster.py
    solver,    \* the scipy ode object: t, y and successful()
    pc,        \* position in Reactor.__init__
    t,         \* first argument of the last construct_rhs call
    y,         \* second argument of the last construct_rhs call
    rhs,       \* list returned by the last construct_rhs call
    log,       \* the steps of the last construct_rhs call, in the order made
    folder,    \* whether the output folder has been prepared
    ncalls,    \* number of construct_rhs calls made so far
    probe,     \* one earlier call kept for comparison: its arguments and result
    fid,       \* the list of output files: name, lines written, open or not
    seg,       \* position of the for loop in control.input['t_dt'] (1-based)
    time,      \* the local time: the sample time last requested
    requests,  \* every solver.integrate(time) call so far: segment and time
    trials,    \* construct_rhs calls made within the current integrate call
    outcome    \* how Reactor.__init__ ended: "none", "returned" or "raised"

vars == <<prog, input, solid, fluid, neutron, y0, state, solver, pc, t, y, rhs,
          log, folder, ncalls, probe, fid, seg, time, requests, trials, outcome>>

\* the variables of the output driver
drv == <<fid, seg, time, requests, trials, outcome>>

Tags == {"fuelrod", "fluid", "pointkinetics"}
Vals == 0..MaxVal
None == [kept |-> FALSE, t |-> 0, y |-> <<>>, rhs |-> <<>>, other |-> FALSE]

(* ------------------------------ helpers -------------------------------- *)
RECURSIVE Flatten(_)
\* concatenation of a sequence of sequences: what nested loops of appends build
Flatten(ss) == IF ss = <<>> THEN <<>> ELSE Head(ss) \o Flatten(Tail(ss))

(* --------------------------- subsystem objects ------------------------- *)
\* self.solid.nfuelrods, self.solid.fuelrod[i].nz, .fuel[j].nr, .clad[j].nr
nfuelrods == input.nfuelrods
nz(i) == input.nz[i]
fuel_nr(i, j) == input.fuel_nr
clad_nr(i, j) == input.clad_nr
njuni == input.njuni
njund == input.njund
ndnp == input.ndnp
solve == input.solve

\* the scalars of one axial node, named by slot
FuelSlots(i, j) == [k1 \in 1..fuel_nr(i, j) |-> <<"fuel", i, j, k1 - 1>>]
CladSlots(i, j) == [k1 \in 1..clad_nr(i, j) |-> <<"clad", i, j, k1 - 1>>]
MdotiSlots == [i1 \in 1..njuni |-> <<"mdoti", i1 - 1>>]
CdnpSlots == [i1 \in 1..ndnp |-> <<"cdnp", i1 - 1>>]
PowerSlot == <<"power">>

SeqRange(s) == {s[p] : p \in DOMAIN s}

\* value of a scalar of the subsystem objects
Get(slot) ==
    IF slot[1] \in {"fuel", "clad"} THEN solid[slot]
    ELSE IF slot[1] = "mdoti" THEN fluid[slot]
    ELSE neutron[slot]

(* ------------------------- assembly of y0 ------------------------------ *)
\* the scalars appended to y0 for the solid: per rod, per axial node, the fuel
\* temperatures of the node and then its clad temperatures
AssemblySolid ==
    Flatten([i1 \in 1..nfuelrods |->
        Flatten([j1 \in 1..nz(i1 - 1) |->
            FuelSlots(i1 - 1, j1 - 1) \o CladSlots(i1 - 1, j1 - 1)])])

AssemblyFluid == MdotiSlots

AssemblyNeutron == <<PowerSlot>> \o CdnpSlots

AssemblyWalk_All ==
    AssemblySolid \o AssemblyFluid \o AssemblyNeutron

\* variant: the blocks appended without the tests of self.solve
AssemblyWalk_Unguarded == AssemblyWalk_All

\* the slots read into y0, in order, by the three guarded blocks of __init__
AssemblyWalk ==
    (IF "fuelrod" \in solve THEN AssemblySolid ELSE <<>>)
    \o (IF "fluid" \in solve THEN AssemblyFluid ELSE <<>>)
    \o (IF "pointkinetics" \in solve THEN AssemblyNeutron ELSE <<>>)

\* the values of a walk of slots, read from the subsystem objects
Pack(walk) == [p \in 1..Len(walk) |-> Get(walk[p])]

(* ----------------------- construct_rhs: unpack ------------------------- *)
Store(slot) == [op |-> "store", slot |-> slot]
AppendY0(slot) == [op |-> "append", slot |-> slot]
StoreAll(slots) == [p \in 1..Len(slots) |-> Store(slots[p])]
AppendAll(slots) == [p \in 1..Len(slots) |-> AppendY0(slots[p])]

\* the solid branch: per rod, the fuel temperatures of every axial node and
\* then, in a second loop over the axial nodes, the clad temperatures
UnpackSolid ==
    Flatten([i1 \in 1..nfuelrods |->
        Flatten([j1 \in 1..nz(i1 - 1) |-> StoreAll(FuelSlots(i1 - 1, j1 - 1))])
        \o Flatten([j1 \in 1..nz(i1 - 1) |-> StoreAll(CladSlots(i1 - 1, j1 - 1))])])

UnpackFluid == StoreAll(MdotiSlots)

\* the pointkinetics branch: power is read from y; for every precursor group
\* cdnp[i] is appended to y0 and indx advances
UnpackNeutron == <<Store(PowerSlot)>> \o AppendAll(CdnpSlots)

\* the steps of the unpack, one per increment of indx: step p acts at y[p - 1]
UnpackOps ==
    (IF "fuelrod" \in solve THEN UnpackSolid ELSE <<>>)
    \o (IF "fluid" \in solve THEN UnpackFluid ELSE <<>>)
    \o (IF "pointkinetics" \in solve THEN UnpackNeutron ELSE <<>>)

\* the value of a scalar after the unpack of yy
Unpacked(ops, yy, slot, old) ==
    IF \E p \in DOMAIN ops : ops[p] = Store(slot)
    THEN yy[CHOOSE p \in DOMAIN ops : ops[p] = Store(slot)]
    ELSE old

UnpackedSolid(ops, yy) == [s \in DOMAIN solid |-> Unpacked(ops, yy, s, solid[s])]
UnpackedFluid(ops, yy) == [s \in DOMAIN fluid |-> Unpacked(ops, yy, s, fluid[s])]
UnpackedNeutron(ops, yy) == [s \in DOMAIN neutron |-> Unpacked(ops, yy, s, neutron[s])]

RECURSIVE Appended(_)
\* the values the unpack appends to y0, in order (no step stores into cdnp, so
\* each is read from the neutron object as it was before the call)
Appended(ops) ==
    IF ops = <<>> THEN <<>>
    ELSE (IF Head(ops).op = "append" THEN <<Get(Head(ops).slot)>> ELSE <<>>)
         \o Appended(Tail(ops))

(* ------------------- construct_rhs: derivatives ------------------------ *)
\* the derivative of one scalar: a value that depends on the scalar and on t
Deriv(slot, v, tt) == [of |-> slot, d |-> (v + tt) % (MaxVal + 1)]

\* X.calculate_rhs(reactor, t): one derivative per scalar that X contributed to
\* the vector of unknowns, computed from the subsystem objects sol, flu, neu
CalculateRhs(walk, sol, flu, neu, tt) ==
    [p \in 1..Len(walk) |->
        Deriv(walk[p],
              IF walk[p][1] \in {"fuel", "clad"} THEN sol[walk[p]]
              ELSE IF walk[p][1] = "mdoti" THEN flu[walk[p]]
              ELSE neu[walk[p]],
              tt)]

solid_calculate_rhs(sol, flu, neu, tt) ==
    CalculateRhs(IF "fuelrod" \in solve THEN AssemblySolid ELSE <<>>, sol, flu, neu, tt)
fluid_calculate_rhs(sol, flu, neu, tt) ==
    CalculateRhs(IF "fluid" \in solve THEN AssemblyFluid ELSE <<>>, sol, flu, neu, tt)
neutron_calculate_rhs(sol, flu, neu, tt) ==
    CalculateRhs(IF "pointkinetics" \in solve THEN AssemblyNeutron ELSE <<>>, sol, flu, neu, tt)

\* variant: the line rhs += self.fluid.calculate_rhs(self, t) left out
ConcatRhs_SkipFluid(sol, flu, neu, tt) ==
    solid_calculate_rhs(sol, flu, neu, tt)
    \o neutron_calculate_rhs(sol, flu, neu, tt)

\* rhs = []; rhs += solid...; rhs += fluid...; rhs += neutron...; return rhs
ConcatRhs(sol, flu, neu, tt) ==
    solid_calculate_rhs(sol, flu, neu, tt)
    \o fluid_calculate_rhs(sol, flu, neu, tt)
    \o neutron_calculate_rhs(sol, flu, neu, tt)

\* variant: control.evaluate called after the calculate_rhs calls
CallOrder_EvaluateLast ==
    <<"unpack", "solid.calculate_rhs", "fluid.calculate_rhs",
      "neutron.calculate_rhs", "control.evaluate">>

\* the steps of construct_rhs in the order of lines 70-99: the unpack of y,
\* control.evaluate, then the three calculate_rhs calls
CallOrder ==
    <<"unpack", "control.evaluate", "solid.calculate_rhs",
      "fluid.calculate_rhs", "neutron.calculate_rhs">>

\* variant: the derivatives computed before y is unpacked
construct_rhs_value_BeforeUnpack(tt, yy) ==
    ConcatRhs(solid, fluid, neutron, tt)

\* the list construct_rhs(tt, yy) returns: the derivatives of the unpacked state
construct_rhs_value(tt, yy) ==
    LET ops == UnpackOps
    IN  ConcatRhs(UnpackedSolid(ops, yy), UnpackedFluid(ops, yy),
                  UnpackedNeutron(ops, yy), tt)

\* construct_rhs(tt, yy) of B_reactor.py, whole: unpack, control.evaluate, rhs
construct_rhs(tt, yy) ==
    LET ops == UnpackOps
    IN
    /\ solid' = UnpackedSolid(ops, yy)
    /\ fluid' = UnpackedFluid(ops, yy)
    /\ neutron' = UnpackedNeutron(ops, yy)
    /\ y0' = y0 \o Appended(ops)
    /\ rhs' = construct_rhs_value(tt, yy)
    /\ log' = CallOrder
    /\ folder' = folder
    /\ t' = tt
    /\ y' = yy
    /\ ncalls' = ncalls + 1

(* ------------------------------ rooster.py ----------------------------- *)
\* lengths of control.state, solid.state, fluid.state, neutron.state
rlen == input.rlen
RoosterOrder == <<"control", "solid", "fluid", "neutron">>
RoosterBlock(name) == [k1 \in 1..rlen[name] |-> <<name, k1 - 1>>]

\* self.state = control.state + solid.state + fluid.state + neutron.state
RoosterWalk == Flatten([b \in 1..4 |-> RoosterBlock(RoosterOrder[b])])

\* position of a scalar in reactor.state
RoosterPos(slot) == LET walk == RoosterWalk IN CHOOSE p \in DOMAIN walk : walk[p] = slot

\* X.calculate_rhs(reactor, t) of rooster.py: one derivative per scalar of X,
\* computed from reactor.state st
rooster_calculate_rhs(name, st, tt) ==
    [k1 \in 1..rlen[name] |->
        Deriv(<<name, k1 - 1>>, st[RoosterPos(<<name, k1 - 1>>)], tt)]

\* construct_rhs of rooster.py: reactor.state = y, then the four rhs lists
rooster_construct_rhs_value(tt, yy) ==
    rooster_calculate_rhs("solid", yy, tt)
    \o rooster_calculate_rhs("fluid", yy, tt)
    \o rooster_calculate_rhs("neutron", yy, tt)
    \o rooster_calculate_rhs("control", yy, tt)

\* the steps of construct_rhs of rooster.py in the order of lines 41-47
RoosterCallOrder ==
    <<"unpack", "control.evaluate", "solid.calculate_rhs",
      "fluid.calculate_rhs", "neutron.calculate_rhs", "control.calculate_rhs">>

rooster_construct_rhs(tt, yy) ==
    /\ state' = yy
    /\ rhs' = rooster_construct_rhs_value(tt, yy)
    /\ log' = RoosterCallOrder
    /\ folder' = folder
    /\ t' = tt
    /\ y' = yy
    /\ ncalls' = ncalls + 1
    /\ UNCHANGED <<solid, fluid, neutron, y0>>

(* ------------------------- configurations ------------------------------ *)
NzChoices == UNION {[0..(n - 1) -> 1..MaxNz] : n \in 1..MaxRods}

NoRlen == [control |-> 0, solid |-> 0, fluid |-> 0, neutron |-> 0]

\* configurations of B_reactor.py; the dimensions of a subsystem that is not
\* in solve are kept at their smallest, since nothing reads them
BConfigs ==
    {c \in [solve : SUBSET Tags, nz : NzChoices, fuel_nr : 1..MaxNr,
            clad_nr : 1..MaxNr, njuni : 1..MaxJun, ndnp : 1..MaxDnp] :
        /\ "fuelrod" \notin c.solve =>
              (DOMAIN c.nz = {0} /\ c.nz[0] = 1 /\ c.fuel_nr = 1 /\ c.clad_nr = 1)
        /\ "fluid" \notin c.solve => c.njuni = 1
        /\ "pointkinetics" \notin c.solve => c.ndnp = 1}

InputOf(c, nd, t0, segs) ==
    [solve |-> c.solve, nfuelrods |-> Cardinality(DOMAIN c.nz), nz |-> c.nz,
     fuel_nr |-> c.fuel_nr, clad_nr |-> c.clad_nr, njuni |-> c.njuni,
     njund |-> nd, ndnp |-> c.ndnp, t0 |-> t0, t_dt |-> segs, rlen |-> NoRlen]

RoosterInputs ==
    {[solve |-> {}, nfuelrods |-> 1, nz |-> [i \in {0} |-> 1], fuel_nr |-> 1,
      clad_nr |-> 1, njuni |-> 1, njund |-> 0, ndnp |-> 1, t0 |-> 0,
      t_dt |-> <<>>, rlen |-> r] :
        r \in [control : 0..MaxSub, solid : 0..MaxSub,
               fluid : 0..MaxSub, neutron : 0..MaxSub]}

\* initial value of the scalar at position p of a walk
InitVal(v0, r, p) == (v0 + r * p) % (MaxVal + 1)

PosIn(walk, slot) == CHOOSE p \in DOMAIN walk : walk[p] = slot

\* the subsystem objects as their constructors leave them
InitObjects(v0, r) ==
    /\ solid = [s \in SeqRange(AssemblySolid) |->
                   InitVal(v0, r, PosIn(AssemblyWalk_All, s))]
    /\ fluid = [s \in SeqRange(AssemblyFluid) |->
                   InitVal(v0, r, PosIn(AssemblyWalk_All, s))]
    /\ neutron = [s \in SeqRange(AssemblyNeutron) |->
                   InitVal(v0, r, PosIn(AssemblyWalk_All, s))]

InitCommon ==
    /\ y0 = <<>>
    /\ state = <<>>
    /\ solver = [t |-> 0, y |-> <<>>, successful |-> TRUE]
    /\ pc = "new"
    /\ t = 0
    /\ y = <<>>
    /\ rhs = <<>>
    /\ log = <<>>
    /\ folder = FALSE
    /\ ncalls = 0
    /\ probe = None
    /\ fid = <<>>
    /\ seg = 1
    /\ time = 0
    /\ requests = <<>>
    /\ trials = 0
    /\ outcome = "none"

(* ----------------------- steps of Reactor.__init__ --------------------- *)
\* B_reactor.py lines 46-64: write list of unknowns to y0
Assemble ==
    /\ pc = "new"
    /\ prog = "B_reactor"
    /\ y0' = Pack(AssemblyWalk)
    /\ pc' = "assembled"
    /\ UNCHANGED <<prog, input, solid, fluid, neutron, state, solver, t, y, rhs, log, folder, ncalls, probe, drv>>

\* rooster.py line 34: initialize state
RoosterAssemble ==
    /\ pc = "new"
    /\ prog = "rooster"
    /\ \E v0 \in Vals :
          state' = [p \in 1..Len(RoosterWalk) |-> InitVal(v0, 1, p)]
    /\ pc' = "assembled"
    /\ UNCHANGED <<prog, input, solid, fluid, neutron, y0, solver, t, y, rhs, log, folder, ncalls, probe, drv>>

\* B_reactor.py lines 102-108: prepare an output folder
PrepareFolder ==
    /\ pc = "assembled"
    /\ prog = "B_reactor"
    /\ folder' = TRUE
    /\ pc' = "folder"
    /\ UNCHANGED <<prog, input, solid, fluid, neutron, y0, state, solver, t, y, rhs, log,
                   ncalls, probe, drv>>

\* solver.set_initial_value(y0, t0): the solver keeps its own copy of y0
\* (rooster.py: inp['y'] = reactor.state)
SetInitialValue ==
    /\ pc = (IF prog = "B_reactor" THEN "folder" ELSE "assembled")
    /\ solver' = [t |-> input.t0,
                  y |-> IF prog = "rooster" THEN state ELSE y0,
                  successful |-> TRUE]
    /\ pc' = "initialized"
    /\ UNCHANGED <<prog, input, solid, fluid, neutron, y0, state, t, y, rhs, log, folder, ncalls, probe, drv>>

(* ---------------- the dispatcher called at arbitrary points ------------ *)
\* the vectors handed to construct_rhs: the two extreme constant vectors, and
\* every vector that differs from zero at one position only
Vectors(n) ==
    {[p \in 1..n |-> v] : v \in {0, MaxVal}}
    \cup {[p \in 1..n |-> IF p = q THEN MaxVal ELSE 0] : q \in 1..n}

\* the probe after a call: while no call is kept, this call may be kept; a
\* kept call stays, and records whether a call at another point followed it
ProbeAfter(tt, yy, r) ==
    IF ~probe.kept
    THEN {None, [kept |-> TRUE, t |-> tt, y |-> yy, rhs |-> r, other |-> FALSE]}
    ELSE {[probe EXCEPT !.other = @ \/ (<<tt, yy>> # <<probe.t, probe.y>>)]}

\* one call of construct_rhs by the integrator, at any trial point
RhsCall ==
    /\ pc = "initialized"
    /\ ncalls < MaxCalls
    /\ \E tt \in 0..MaxTime, yy \in Vectors(Len(solver.y)) :
          IF prog = "rooster" THEN rooster_construct_rhs(tt, yy)
                              ELSE construct_rhs(tt, yy) /\ state' = state
    /\ UNCHANGED <<prog, input, solver, pc, probe, drv>>

\* the same call, which may be kept for comparison with the later ones
RhsCallProbed ==
    /\ pc = "initialized"
    /\ ncalls < MaxCalls
    /\ \E tt \in 0..MaxTime, yy \in Vectors(Len(solver.y)) :
          /\ IF prog = "rooster" THEN rooster_construct_rhs(tt, yy)
                                 ELSE construct_rhs(tt, yy) /\ state' = state
          /\ probe' \in ProbeAfter(tt, yy, rhs')
    /\ UNCHANGED <<prog, input, solver, pc, drv>>

\* the state once the subsystem objects are created (lines 36-44)
InitReactor(maxlen) ==
    /\ prog \in {"B_reactor", "rooster"}
    /\ IF prog = "B_reactor"
       THEN \E c \in BConfigs : input = InputOf(c, 0, 0, <<>>)
       ELSE input \in RoosterInputs
    /\ IF prog = "B_reactor"
       THEN Len(AssemblyWalk) <= maxlen
       ELSE Len(RoosterWalk) <= maxlen
    /\ IF prog = "B_reactor" THEN InitObjects(0, 1) ELSE InitObjects(0, 0)
    /\ InitCommon

(* the dispatcher under arbitrary calls *)
InitRhs == InitReactor(MaxLen)
NextRhs == Assemble \/ RoosterAssemble \/ PrepareFolder \/ SetInitialValue \/ RhsCall
SpecRhs == InitRhs /\ [][NextRhs]_vars

(* the dispatcher under arbitrary calls, one earlier call kept *)
InitPure == InitReactor(MaxProbeLen)
NextPure ==
    Assemble \/ RoosterAssemble \/ PrepareFolder \/ SetInitialValue \/ RhsCallProbed
SpecPure == InitPure /\ [][NextPure]_vars

(* --------------------------- the output driver ------------------------- *)
\* the digits after the point in the format '{0:12.5e}' of a written number
FormatDigits == 5

\* '{0:12.5e}'.format(x) read back as a number: x rounded, half to even, to
\* FormatDigits + 1 significant digits (x a natural below 10^(FormatDigits + 2))
Format12_5e(x) ==
    IF x < 10^(FormatDigits + 1) THEN x
    ELSE LET q == x \div 10
             r == x % 10
         IN 10 * (IF r > 5 \/ (r = 5 /\ q % 2 = 1) THEN q + 1 ELSE q)

\* control.input['t0']: zero, and the first time that needs more digits than
\* the format keeps
T0s == {0, 10^(FormatDigits + 1)}

\* control.input['t_dt']: lists of (tend, dtout), the end times counted from t0
SegLists == UNION {[1..n -> (1..MaxT) \X (1..MaxDt)] : n \in 1..MaxSegs}
SegsFrom(t0, segs) == [k \in DOMAIN segs |-> <<t0 + segs[k][1], segs[k][2]>>]
tend == input.t_dt[seg][1]
dtout == input.t_dt[seg][2]

\* the vectors the solver hands to construct_rhs and returns from integrate
SolverVectors(n) == {[p \in 1..n |-> v] : v \in Vals}

\* fluid.mdot[i], kept by the Fluid object: the independent junctions first
mdot(i) == IF i < njuni THEN fluid[<<"mdoti", i>>] ELSE 0

\* lines 120-124: one file per fuel rod and axial node, with its header line
FuelrodFile(i, j) ==
    [name |-> <<"temp-fuelrod", i, j>>,
     lines |-> <<[kind |-> "header",
                  cols |-> <<<<"time(s)">>>>
                           \o [k1 \in 1..fuel_nr(i, j) |-> <<"tempf", k1 - 1>>]
                           \o [k1 \in 1..clad_nr(i, j) |-> <<"tempc", k1 - 1>>]]>>,
     open |-> TRUE, closes |-> 0]

\* lines 125-127: the file of the junction flowrates, with its header line
MdotFile ==
    [name |-> <<"mdot">>,
     lines |-> <<[kind |-> "header",
                  cols |-> <<<<"time(s)">>>>
                           \o [j1 \in 1..(njuni + njund) |-> <<"junction", j1 - 1>>]]>>,
     open |-> TRUE, closes |-> 0]

\* variant: the files opened without their header line
OpenedFiles_NoHeader ==
    [x \in 1..((IF "fuelrod" \in solve
                THEN Len(Flatten([i1 \in 1..nfuelrods |->
                         [j1 \in 1..nz(i1 - 1) |-> j1]]))
                ELSE 0)
               + (IF "fluid" \in solve THEN 1 ELSE 0)) |->
        [name |-> <<"file", x>>, lines |-> <<>>, open |-> TRUE, closes |-> 0]]

\* variant: the file of the flowrates opened first
OpenedFiles_FluidFirst ==
    (IF "fluid" \in solve THEN <<MdotFile>> ELSE <<>>)
    \o (IF "fuelrod" \in solve
        THEN Flatten([i1 \in 1..nfuelrods |->
                 [j1 \in 1..nz(i1 - 1) |-> FuelrodFile(i1 - 1, j1 - 1)]])
        ELSE <<>>)

\* lines 119-127: the list fid when the files are opened
OpenedFiles ==
    (IF "fuelrod" \in solve
     THEN Flatten([i1 \in 1..nfuelrods |->
              [j1 \in 1..nz(i1 - 1) |-> FuelrodFile(i1 - 1, j1 - 1)]])
     ELSE <<>>)
    \o (IF "fluid" \in solve THEN <<MdotFile>> ELSE <<>>)

\* lines 116-127: copy input and open output files
OpenFiles ==
    /\ pc = "initialized"
    /\ fid' = OpenedFiles
    /\ seg' = 1
    /\ pc' = "loop"
    /\ UNCHANGED <<prog, input, solid, fluid, neutron, y0, state, solver, t, y, rhs, log, folder,
                   ncalls, probe, time, requests, trials, outcome>>

\* variant: the loop entered also at solver.t = tend
LoopCondition_Le == solver.successful /\ solver.t <= tend

\* variant: the loop without the test of solver.successful()
LoopCondition_NoSuccess == solver.t < tend

\* the condition of the while loop of line 132
LoopCondition == solver.successful /\ solver.t < tend

\* variant: the requested time set without the output interval added
Request_NoInterval ==
    /\ pc = "loop"
    /\ seg <= Len(input.t_dt)
    /\ LoopCondition
    /\ time' = solver.t
    /\ requests' = Append(requests, [seg |-> seg, time |-> solver.t])
    /\ trials' = 0
    /\ pc' = "integrate"
    /\ UNCHANGED <<prog, input, solid, fluid, neutron, y0, state, solver, t, y, rhs,
                   log, folder, ncalls, probe, fid, seg, outcome>>

\* lines 132-134: the loop condition holds; time = solver.t + dtout and
\* solver.integrate(time) is entered
Request ==
    /\ pc = "loop"
    /\ seg <= Len(input.t_dt)
    /\ LoopCondition
    /\ time' = solver.t + dtout
    /\ requests' = Append(requests, [seg |-> seg, time |-> solver.t + dtout])
    /\ trials' = 0
    /\ pc' = "integrate"
    /\ UNCHANGED <<prog, input, solid, fluid, neutron, y0, state, solver, t, y, rhs, log, folder,
                   ncalls, probe, fid, seg, outcome>>

\* lines 129-132: the loop condition fails; the for loop takes the next t_dt
NextSegment ==
    /\ pc = "loop"
    /\ seg <= Len(input.t_dt)
    /\ ~LoopCondition
    /\ seg' = seg + 1
    /\ UNCHANGED <<prog, input, solid, fluid, neutron, y0, state, solver, pc, t, y,
                   rhs, log, folder, ncalls, probe, fid, time, requests, trials, outcome>>

\* within solver.integrate(time): the solver calls construct_rhs at a trial point
Trial ==
    /\ pc = "integrate"
    /\ trials < MaxTrials
    /\ \E tt \in {solver.t, time}, yy \in SolverVectors(Len(solver.y)) :
          construct_rhs(tt, yy)
    /\ trials' = trials + 1
    /\ UNCHANGED <<prog, input, state, solver, pc, probe, fid, seg, time, requests, outcome>>

\* within solver.integrate(time): the first calculate_rhs call raises; the
\* unpack of construct_rhs and control.evaluate are done, nothing is returned,
\* the error leaves __init__
TrialRaises ==
    /\ pc = "integrate"
    /\ trials < MaxTrials
    /\ \E tt \in {solver.t, time}, yy \in SolverVectors(Len(solver.y)) :
          /\ solid' = UnpackedSolid(UnpackOps, yy)
          /\ fluid' = UnpackedFluid(UnpackOps, yy)
          /\ neutron' = UnpackedNeutron(UnpackOps, yy)
          /\ y0' = y0 \o Appended(UnpackOps)
          /\ t' = tt
          /\ y' = yy
          /\ ncalls' = ncalls + 1
    /\ log' = SubSeq(CallOrder, 1, 3)
    /\ trials' = trials + 1
    /\ pc' = "raised"
    /\ outcome' = "raised"
    /\ UNCHANGED <<prog, input, state, solver, rhs, folder, probe, fid, seg, time, requests>>

\* solver.integrate(time) returns having reached time; the solver has called
\* construct_rhs at least once on the way
IntegrateSucceeds ==
    /\ pc = "integrate"
    /\ trials > 0
    /\ \E yy \in SolverVectors(Len(solver.y)) :
          solver' = [t |-> time, y |-> yy, successful |-> TRUE]
    /\ pc' = "write"
    /\ UNCHANGED <<prog, input, solid, fluid, neutron, y0, state, t, y, rhs, log, folder, ncalls,
                   probe, fid, seg, time, requests, trials, outcome>>

\* solver.integrate(time) returns short of time; successful() is then false
IntegrateFails ==
    /\ pc = "integrate"
    /\ trials > 0
    /\ \E yy \in SolverVectors(Len(solver.y)), tr \in solver.t..(time - 1) :
          solver' = [t |-> tr, y |-> yy, successful |-> FALSE]
    /\ pc' = "write"
    /\ UNCHANGED <<prog, input, solid, fluid, neutron, y0, state, t, y, rhs, log, folder, ncalls,
                   probe, fid, seg, time, requests, trials, outcome>>

\* line 144: the line of fuel rod i, axial node j (about: whose values it holds)
FuelrodRow(i, j) ==
    [kind |-> "row", about |-> <<"temp-fuelrod", i, j>>, time |-> Format12_5e(time),
     vals |-> [p \in 1..(fuel_nr(i, j) + clad_nr(i, j)) |->
                 Format12_5e((Pack(FuelSlots(i, j)) \o Pack(CladSlots(i, j)))[p])]]

\* line 148: the line of the junction flowrates
MdotRow ==
    [kind |-> "row", about |-> <<"mdot">>, time |-> Format12_5e(time),
     vals |-> [i1 \in 1..(njuni + njund) |-> Format12_5e(mdot(i1 - 1))]]

\* variant: the flowrate line left out
Rows_NoFluid ==
    IF "fuelrod" \in solve
    THEN Flatten([i1 \in 1..nfuelrods |->
             [j1 \in 1..nz(i1 - 1) |-> FuelrodRow(i1 - 1, j1 - 1)]])
    ELSE <<>>

\* lines 139-149: the lines of one output time, in the order of indx
Rows ==
    (IF "fuelrod" \in solve
     THEN Flatten([i1 \in 1..nfuelrods |->
              [j1 \in 1..nz(i1 - 1) |-> FuelrodRow(i1 - 1, j1 - 1)]])
     ELSE <<>>)
    \o (IF "fluid" \in solve THEN <<MdotRow>> ELSE <<>>)

\* lines 136-149: print output: fid[indx].write(...) for every line
WriteRows ==
    /\ pc = "write"
    /\ fid' = [x \in DOMAIN fid |->
                  IF x <= Len(Rows)
                  THEN [fid[x] EXCEPT !.lines = Append(@, Rows[x])]
                  ELSE fid[x]]
    /\ pc' = "loop"
    /\ UNCHANGED <<prog, input, solid, fluid, neutron, y0, state, solver, t, y, rhs, log, folder,
                   ncalls, probe, seg, time, requests, trials, outcome>>

\* lines 151-153: close all output files; __init__ returns
CloseFiles ==
    /\ pc = "loop"
    /\ seg > Len(input.t_dt)
    /\ fid' = [x \in DOMAIN fid |->
                  [fid[x] EXCEPT !.open = FALSE, !.closes = @ + 1]]
    /\ pc' = "done"
    /\ outcome' = "returned"
    /\ UNCHANGED <<prog, input, solid, fluid, neutron, y0, state, solver, t, y, rhs, log, folder,
                   ncalls, probe, seg, time, requests, trials>>

(* Reactor.__init__ of B_reactor.py, whole *)
Init ==
    /\ prog = "B_reactor"
    /\ \E c \in BConfigs, nd \in 0..MaxJund, t0 \in T0s, segs \in SegLists :
          /\ ("fluid" \notin c.solve => nd = 0)
          /\ input = InputOf(c, nd, t0, SegsFrom(t0, segs))
    /\ InitObjects(0, 1)
    /\ InitCommon

Next ==
    \/ Assemble
    \/ PrepareFolder
    \/ SetInitialValue
    \/ OpenFiles
    \/ Request
    \/ NextSegment
    \/ Trial
    \/ TrialRaises
    \/ IntegrateSucceeds
    \/ IntegrateFails
    \/ WriteRows
    \/ CloseFiles

Spec == Init /\ [][Next]_vars

(* Reactor.__init__ as it runs: a sequential program takes its next step for
   as long as it has one; the runs of the small configurations *)
InitFair == Init /\ Len(AssemblyWalk) <= MaxProbeLen
SpecFair == InitFair /\ [][Next]_vars /\ WF_vars(Next)

(* ------------------------------- claims -------------------------------- *)
RECURSIVE SumSeq(_)
SumSeq(s) == IF s = <<>> THEN 0 ELSE Head(s) + SumSeq(Tail(s))

\* the number of scalars each subsystem contributes, counted from the dimensions
SolidLen ==
    SumSeq([i1 \in 1..nfuelrods |->
        SumSeq([j1 \in 1..nz(i1 - 1) |-> fuel_nr(i1 - 1, j1 - 1) + clad_nr(i1 - 1, j1 - 1)])])
FluidLen == njuni
NeutronLen == 1 + ndnp
ActiveLen(tag, n) == IF tag \in solve THEN n ELSE 0

\* C1: after construct_rhs(t, y) has unpacked y, re-packing the subsystem state
\* with the assembly walk of __init__ gives y back, value for value.
C1_RoundTrip ==
    (prog = "B_reactor" /\ ncalls > 0) => Pack(AssemblyWalk) = y

\* C2: when assembly finishes, the length of y0 is the sum over the active
\* subsystems of the scalars each contributes, and y0 is the solid block, then
\* the fluid block, then the neutron block; an inactive subsystem contributes
\* nothing (rooster.py: the state is the four state lists, end to end).
C2_Y0Length ==
    /\ (prog = "B_reactor" /\ pc \in {"assembled", "folder", "initialized"} /\ ncalls = 0) =>
          LET a == ActiveLen("fuelrod", SolidLen)
              b == ActiveLen("fluid", FluidLen)
              c == ActiveLen("pointkinetics", NeutronLen)
          IN /\ Len(y0) = a + b + c
             /\ SubSeq(y0, 1, a) = Pack(SubSeq(AssemblySolid, 1, a))
             /\ SubSeq(y0, a + 1, a + b) = Pack(SubSeq(AssemblyFluid, 1, b))
             /\ SubSeq(y0, a + b + 1, a + b + c) = Pack(SubSeq(AssemblyNeutron, 1, c))
    /\ (prog = "rooster" /\ pc \in {"assembled", "initialized"} /\ ncalls = 0) =>
          Len(state) = rlen.control + rlen.solid + rlen.fluid + rlen.neutron

C2_Witness ==
    /\ prog = "B_reactor"
    /\ pc = "assembled"
    /\ solve = {"fuelrod", "pointkinetics"}
    /\ njuni > 0
    /\ Len(y0) = 4

\* C3: the list returned by construct_rhs(t, y) is as long as y.
C3_RhsLength ==
    ncalls > 0 => Len(rhs) = Len(y)

C3_Witness ==
    /\ prog = "B_reactor"
    /\ ncalls > 0
    /\ solve = Tags
    /\ Len(rhs) = 5

\* C4: two calls of construct_rhs with the same (t, y) return the same list,
\* whatever calls at other points were made in between.
C4_Pure ==
    (probe.kept /\ probe.t = t /\ probe.y = y) => rhs = probe.rhs

C4_Witness ==
    /\ probe.kept
    /\ probe.other
    /\ probe.t = t
    /\ probe.y = y
    /\ Len(y) = 2

\* C5: y0 keeps the length and the contents it had when assembly finished;
\* no construct_rhs call changes it.
C5_Y0Unchanged ==
    [][pc = "initialized" => y0' = y0]_vars

\* the run has ended: __init__ returned or an error left it
Ended == pc \in {"done", "raised"}
AllClosed == \A x \in DOMAIN fid : ~fid[x].open /\ fid[x].closes = 1
IsHeader(line) == line.kind = "header"
IsRow(line) == line.kind = "row"
\* the times of the data lines of a file, its first line left out
RowTimes(f) == [k \in 1..(Len(f.lines) - 1) |-> f.lines[k + 1].time]
RequestTimes(n) == [k \in 1..n |-> requests[k].time]
Increasing(s) == \A k \in 1..(Len(s) - 1) : s[k] < s[k + 1]
NonDecreasing(s) == \A k \in 1..(Len(s) - 1) : s[k] <= s[k + 1]
StrictlyIncreasingEnds ==
    \A k \in 1..(Len(input.t_dt) - 1) : input.t_dt[k][1] < input.t_dt[k + 1][1]

\* C6: every file opened by the run is closed exactly once on every exit path:
\* normal completion, solver failure, and an error raised out of construct_rhs.
C6_ClosedOnce ==
    Ended => AllClosed

\* a file holds one header line and then n data lines at the first n requested
\* times, which increase strictly
HoldsRows(f, n) ==
    /\ Len(f.lines) = n + 1
    /\ IsHeader(f.lines[1])
    /\ \A k \in 2..Len(f.lines) : IsRow(f.lines[k])
    /\ RowTimes(f) = RequestTimes(n)
    /\ Increasing(RowTimes(f))

\* C7 as stated: with N integrate calls requested over all segments, every file
\* ends the run with one header line and exactly N data lines, at the requested
\* times, strictly increasing.
C7_RowsPerRequest ==
    Ended => \A x \in DOMAIN fid : HoldsRows(fid[x], Len(requests))

\* the integrate calls that returned: all of them, but for the one an error left
Returned == IF pc \in {"integrate", "raised"} THEN Len(requests) - 1 ELSE Len(requests)

\* a file holds one header line and then n data lines, at the first n requested
\* times as the format writes them
HoldsFormattedRows(f, n) ==
    /\ Len(f.lines) = n + 1
    /\ IsHeader(f.lines[1])
    /\ \A k \in 2..Len(f.lines) : IsRow(f.lines[k])
    /\ RowTimes(f) = [k \in 1..n |-> Format12_5e(requests[k].time)]
    /\ NonDecreasing(RowTimes(f))
    /\ (\A k \in 1..n : requests[k].time < 10^(FormatDigits + 1)) =>
           (RowTimes(f) = RequestTimes(n) /\ Increasing(RowTimes(f)))

\* C7 amended: with N integrate calls that returned (the solver reporting success
\* or not), every file ends the run with one header line and exactly N data
\* lines, whose times are the times of those N requests rounded to the six
\* digits of the format: they never decrease, and they increase strictly and
\* equal the requested times while these need no more than six digits; a
\* request that an error of construct_rhs aborts adds no line.
C7_RowsPerReturn ==
    Ended => \A x \in DOMAIN fid : HoldsFormattedRows(fid[x], Returned)

C7_Witness ==
    /\ pc = "done"
    /\ solver.successful
    /\ Len(input.t_dt) = 2
    /\ Len(requests) >= 2
    /\ Len(fid) >= 3
    /\ \A x \in DOMAIN fid : Len(fid[x].lines) = Len(requests) + 1

\* the time the solver stood at when request k was made
Before(k) == IF k = 1 THEN input.t0 ELSE requests[k - 1].time
SegOf(k) == input.t_dt[requests[k].seg]

C9_StopsOnFailure ==
    /\ [][~solver.successful =>
            /\ requests' = requests
            /\ pc' \in {"loop", "done"}
            /\ (pc' = "done" => AllClosed')]_vars
    /\ [](~solver.successful => (pc = "done" \/ ENABLED Next))

C9_Witness ==
    /\ pc = "done"
    /\ ~solver.successful
    /\ Len(input.t_dt) = 2
    /\ requests # <<>>
    /\ requests[Len(requests)].seg = 1
    /\ fid # <<>>
    /\ AllClosed

\* C10: a run in which the solver reports failure ends in an outcome that differs
\* from the outcome of a run that covered all segments, which is "returned".
C10_FailureDistinct ==
    (Ended /\ ~solver.successful) => outcome # "returned"

\* C11: a list of segments whose end times do not increase strictly is refused
\* before integration starts: no integrate call is requested, no data line is
\* written to any file, and the run does not end as a run that returned.
C11_RejectsBadSegments ==
    ~StrictlyIncreasingEnds =>
        /\ requests = <<>>
        /\ \A x \in DOMAIN fid : Len(fid[x].lines) <= 1
        /\ outcome # "returned"

\* the steps of a call that compute a subsystem's derivatives
IsCalculateRhs(step) ==
    step \in {"solid.calculate_rhs", "fluid.calculate_rhs",
              "neutron.calculate_rhs", "control.calculate_rhs"}

\* C12: within every construct_rhs call control.evaluate is invoked exactly
\* once, after the unpack of y and before the first calculate_rhs call of any
\* subsystem (in rooster.py also before control's own).
C12_EvaluateFirst ==
    ncalls > 0 =>
        /\ Cardinality({p \in DOMAIN log : log[p] = "control.evaluate"}) = 1
        /\ \A p, q \in DOMAIN log :
              /\ (log[p] = "unpack" /\ log[q] = "control.evaluate") => p < q
              /\ (log[p] = "control.evaluate" /\ IsCalculateRhs(log[q])) => p < q

C12_Witness ==
    /\ prog = "B_reactor"
    /\ ncalls > 1
    /\ solve = Tags
    /\ \E p \in DOMAIN log : log[p] = "neutron.calculate_rhs"

\* the scalars of the vector of unknowns, in the order of its assembly
StateWalk == IF prog = "rooster" THEN RoosterWalk ELSE AssemblyWalk

\* C13: the list construct_rhs returns is in the order of the vector of
\* unknowns: at every index p it holds the derivative of the scalar whose value
\* sits at index p of the vector, in B_reactor.py and in rooster.py.
C13_SameOrder ==
    ncalls > 0 =>
        \A p \in DOMAIN rhs \cap DOMAIN StateWalk : rhs[p].of = StateWalk[p]

\* C14: the solid block has one layout in both directions: the scalar read into
\* y0[p] at assembly is the scalar that construct_rhs overwrites with y[p], at
\* every index p of the solid block, for any number of axial nodes.
C14_SolidLayout ==
    (prog = "B_reactor" /\ "fuelrod" \in solve /\ ncalls > 0) =>
        \A p \in DOMAIN AssemblySolid :
            /\ UnpackSolid[p] = Store(AssemblySolid[p])
            /\ solid[AssemblySolid[p]] = y[p]

\* the index of y before the neutron block: the lengths of the active solid and
\* fluid blocks
NeutronStart == ActiveLen("fuelrod", SolidLen) + ActiveLen("fluid", FluidLen)

\* C15: with pointkinetics active, after the unpack of construct_rhs(t, y) the
\* power is the first value of the neutron block of y and cdnp[i] is the value
\* i + 1 places after it, for every precursor group i.
C15_NeutronUnpacked ==
    (prog = "B_reactor" /\ "pointkinetics" \in solve /\ ncalls > 0) =>
        /\ neutron[PowerSlot] = y[NeutronStart + 1]
        /\ \A i \in 0..(ndnp - 1) : neutron[<<"cdnp", i>>] = y[NeutronStart + 2 + i]

\* C16: when a data line is written after a successful advance, the subsystem
\* state the line is read from is the unpack of the vector solver.integrate
\* returned, not the state left by the solver's last call of construct_rhs.
C16_RowFromReturned ==
    (pc = "write" /\ solver.successful) =>
        /\ solid = UnpackedSolid(UnpackOps, solver.y)
        /\ fluid = UnpackedFluid(UnpackOps, solver.y)

\* C17: a data line is written only after a successful advance: when the solver
\* reports failure for a request, no line with the time of that request is
\* added to any file, so the files hold a line for the earlier requests only.
C17_NoRowOnFailure ==
    (pc \in {"loop", "done"} /\ ~solver.successful) =>
        \A x \in DOMAIN fid :
            /\ Len(fid[x].lines) = Len(requests)
            /\ \A k \in 2..Len(fid[x].lines) : fid[x].lines[k].time <= solver.t

\* the number of files the run opens: one per fuel rod and axial node, and one
\* for the flowrates
NFiles ==
    ActiveLen("fuelrod", SumSeq([i1 \in 1..nfuelrods |-> nz(i1 - 1)]))
    + ActiveLen("fluid", 1)

\* C18: before the first integrate call is requested, and so before the first
\* construct_rhs call, the output folder is prepared and every file of the run
\* is open with its header line written; no file is opened later.
C18_OpenedBeforeAdvance ==
    (requests # <<>> \/ ncalls > 0 \/ pc = "integrate") =>
        /\ folder
        /\ Len(fid) = NFiles
        /\ \A x \in DOMAIN fid :
              /\ fid[x].lines # <<>>
              /\ IsHeader(fid[x].lines[1])
              /\ (pc \in {"integrate", "write", "loop"} => fid[x].open)

C18_Witness ==
    /\ pc = "integrate"
    /\ Len(requests) = 1
    /\ ncalls = 0
    /\ solve = Tags
    /\ Len(fid) = 3

\* C20: at every output time the index indx stays within fid, the line of fuel
\* rod i, axial node j goes to the file opened for rod i, node j, and the line
\* of the flowrates goes to mdot.dat, whichever subsystems are solved.
C20_StreamsAligned ==
    /\ pc = "write" => Len(Rows) = Len(fid)
    /\ \A x \in DOMAIN fid :
          \A k \in 2..Len(fid[x].lines) : fid[x].lines[k].about = fid[x].name

C20_Witness ==
    /\ pc = "loop"
    /\ solve = Tags
    /\ nfuelrods = 2
    /\ nz(1) = 2
    /\ Len(fid) = 4
    /\ \A x \in DOMAIN fid : Len(fid[x].lines) = 3

\* the largest end time of the list of segments
LastEnd ==
    CHOOSE e \in {input.t_dt[k][1] : k \in DOMAIN input.t_dt} :
        \A k \in DOMAIN input.t_dt : input.t_dt[k][1] <= e

\* C19: the driver terminates: it makes finitely many integrate calls (no more
\* than the largest end time is whole intervals away from t0), every run ends,
\* and a run that returns with the solver successful has left the loop of the
\* last segment with solver.t at or beyond its end time and has closed the files.
C19_Terminates ==
    /\ [][Len(requests') <= LastEnd - input.t0]_vars
    /\ [][pc' = "done" =>
            /\ AllClosed'
            /\ (solver'.successful =>
                   solver'.t >= input.t_dt[Len(input.t_dt)][1])]_vars
    /\ <>Ended

C19_Witness ==
    /\ pc = "done"
    /\ solver.successful
    /\ StrictlyIncreasingEnds
    /\ Len(input.t_dt) = 2
    /\ requests # <<>>
    /\ requests[Len(requests)].seg = 2
    /\ solver.t >= LastEnd
    /\ AllClosed

=============================================================================
